---- MODULE Spec2Model ----
(***************************************************************************)
(* Model of python/ray/ray_operator/operator.py: the Ray cluster operator. *)
(*                                                                         *)
(* The controller process holds the registry ray_clusters, the RayCluster  *)
(* objects, the status queue cluster_status_q and the status thread.  Each *)
(* RayCluster launches mp.Process children that provision the head and run *)
(* the autoscaling monitor.  A child is forked: it works on copies of the  *)
(* controller's objects (its own copy of cluster_status_q included); the   *)
(* only things it shares with the controller are the mp.Event and the file *)
(* system.                                                                 *)
(***************************************************************************)
EXTENDS Integers, Sequences, FiniteSets, TLC

\* Bound on the number of callbacks kopf delivers after startup (create/resume,
\* update and delete events, and the cleanup at shutdown) when all events are
\* for one identifier; runs with events for two identifiers get one less.
MaxEvents == 3

\* Cluster identifiers (name, namespace) and the bodies a resource can carry;
\* the start commands of body 3 name a redis password.
Ids == {1, 2}
Bodies == {1, 2, 3}
\* metadata.generation of the old and new resource of an update event.
Gens == {1, 2}
\* status.autoscalerRetries of the old and new resource; "missing" is a
\* resource without the field.
RetryFields == {"missing", "0", "1"}

VARIABLES
    scope,      \* the identifiers that resources exist for in this run
    op,         \* kopf lifecycle of the controller: init, running, stopping, stopped
    registry,   \* ray_clusters: identifier K -> index into sups[K], 0 = no entry
    sups,       \* the RayCluster objects ever constructed for each identifier
    procs,      \* the mp.Process children ever started for each identifier
    file,       \* the file at config_path of each identifier
    queue,      \* cluster_status_q of the controller process
    worker,     \* the status thread memo.status_handler
    phase,      \* status.phase of each resource record
    h,          \* the handler running for each identifier
    seen,       \* history: what the events since the last delete of each
                \* identifier were, told from the events' inputs
    cur,        \* history: the event delivered last (quiet and retry of an
                \* update event are told from its inputs; a delete event is
                \* quiet when it found no registry entry)
    nev,        \* history: number of events delivered
    enqueued,   \* history: every item put on the controller's queue
    written     \* history: every item whose set_status was attempted

vars == <<scope, op, registry, sups, procs, file, queue, worker, phase, h, seen,
          cur, nev, enqueued, written>>

STATUS_UPDATING == "Updating"
STATUS_RUNNING == "Running"
STATUS_AUTOSCALING_EXCEPTION == "AutoscalingException"

\* An item of cluster_status_q; Sentinel is the None of stop_background_worker.
Item(K, ph) == [id |-> K, phase |-> ph]
Sentinel == [id |-> 0, phase |-> "None"]

\* A configuration dict; NoConfig stands for "no file" / "no config".
NoConfig == [body |-> 0, filled |-> FALSE]

\* operator_utils.cr_to_config(body): the config of a resource body.
CrToConfig(body) == [body |-> body, filled |-> FALSE]

\* The config's start commands name a redis password.
HasRedisPassword(cfg) == cfg.body = 3

\* operator_utils.check_redis_password_not_specified: TRUE when it returns,
\* FALSE when it raises.
CheckRedisPasswordNotSpecified(cfg) == ~HasRedisPassword(cfg)

\* commands.create_or_update_cluster returns the config with the backend's
\* additions filled in.
CreateOrUpdateCluster(cfg) == [cfg EXCEPT !.filled = TRUE]

\* old.get("status", {}).get(AUTOSCALER_RETRIES_FIELD, 0)
GetRetries(f) == IF f = "missing" THEN 0 ELSE IF f = "0" THEN 0 ELSE 1

\* A comparison with >= in place of >.
SpecChangedOrSame(og, ng) == ng >= og

\* spec_changed = current_generation > old_generation
SpecChanged(og, ng) == ng > og

\* A comparison with >= in place of >.
RayRestartRequiredOrSame(oldr, newr) == GetRetries(newr) >= GetRetries(oldr)

\* ray_restart_required = autoscaler_retries > old_autoscaler_retries
RayRestartRequired(oldr, newr) == GetRetries(newr) > GetRetries(oldr)

\* RayCluster.__init__
RayCluster(K, cfg) == [id |-> K, config |-> cfg, subprocess |-> 0, stop |-> FALSE]

\* mp.Process.is_alive
IsAlive(K, p) == procs[K][p].pc \notin {"exited", "failed"}

IdleHandler == [pc |-> "idle", fn |-> "none", sup |-> 0, cfg |-> NoConfig,
                restart |-> FALSE]

NoEvent == [id |-> 0, kind |-> "none", quiet |-> FALSE, retry |-> FALSE]

\* seen[K].created: a create/resume event for K was delivered; seen[K].entered:
\* a create/resume event with a permitted config, or an update event with an
\* increased generation or retry count, was delivered.  Both are reset when a
\* delete event for K has been processed.  seen[K].acts counts the events of
\* the second kind, and is never reset.
NotSeen == [created |-> FALSE, entered |-> FALSE, acts |-> 0]
Forget(sn) == [sn EXCEPT !.created = FALSE, !.entered = FALSE]

\* The runs explored: up to MaxEvents callbacks with one identifier, up to
\* MaxEvents - 1 with two.
Scopes == {{1}, Ids}
EventBound(sc) == IF Cardinality(sc) = 1 THEN MaxEvents ELSE MaxEvents - 1

Init ==
    /\ scope \in Scopes
    /\ op = "init"
    /\ registry = [K \in Ids |-> 0]
    /\ sups = [K \in Ids |-> <<>>]
    /\ procs = [K \in Ids |-> <<>>]
    /\ file = [K \in Ids |-> NoConfig]
    /\ queue = <<>>
    /\ worker = [pc |-> "none"]
    /\ phase = [K \in Ids |-> "None"]
    /\ h = [K \in Ids |-> IdleHandler]
    /\ seen = [K \in Ids |-> NotSeen]
    /\ cur = NoEvent
    /\ nev = 0
    /\ enqueued = <<>>
    /\ written = <<>>

\* cluster_status_q.put(item) in the controller process.
Put(item) ==
    /\ queue' = Append(queue, item)
    /\ enqueued' = Append(enqueued, item)

\* The framework delivers an event for K: one handler per identifier at a time.
CanDeliver(K) ==
    /\ K \in scope
    /\ op = "running"
    /\ h[K].pc = "idle"
    /\ nev < EventBound(scope)

\* An update event that raises neither counter, told from its inputs.
Quiet(og, ng, oldr, newr) ==
    /\ ng <= og
    /\ (newr = "1") => (oldr = "1")

\* An update event whose new resource has a greater retry count than its old
\* one, told from its inputs.
Retried(oldr, newr) == newr = "1" /\ oldr # "1"

Deliver(K, kind, body, quiet, retry) ==
    /\ cur' = [id |-> K, kind |-> kind, quiet |-> quiet, retry |-> retry]
    /\ nev' = nev + 1
    /\ LET acting == \/ kind = "create" /\ body # 3
                     \/ kind = "update" /\ ~quiet
       IN seen' = [seen EXCEPT ![K] =
                     [created |-> @.created \/ kind = "create",
                      entered |-> @.entered \/ acting,
                      acts |-> IF acting THEN @.acts + 1 ELSE @.acts]]

\* ray_clusters[cluster_identifier] = ray_cluster
RegistryInsert(reg, K, s) == [reg EXCEPT ![K] = s]

\* A delete_fn that leaves the entry in place.
RegistryKeep(reg, K) == reg

\* del ray_clusters[cluster_identifier]
RegistryDel(reg, K) == [reg EXCEPT ![K] = 0]

\* create_fn up to the call of create_or_update: the precondition, the new
\* RayCluster, the registry entry and the Updating item.
CreateFn(K, body) ==
    /\ CanDeliver(K)
    /\ LET cfg == CrToConfig(body)
       IN IF ~CheckRedisPasswordNotSpecified(cfg)
          THEN /\ Deliver(K, "create", body, FALSE, FALSE)
               /\ UNCHANGED <<scope, op, registry, sups, procs, file, queue, worker,
                              phase, h, enqueued, written>>
          ELSE /\ Deliver(K, "create", body, FALSE, FALSE)
               /\ sups' = [sups EXCEPT ![K] = Append(@, RayCluster(K, cfg))]
               /\ registry' = RegistryInsert(registry, K, Len(sups[K]) + 1)
               /\ Put(Item(K, STATUS_UPDATING))
               /\ h' = [h EXCEPT ![K] =
                          [pc |-> "s_clean", fn |-> "create",
                           sup |-> Len(sups[K]) + 1, cfg |-> cfg,
                           restart |-> FALSE]]
               /\ UNCHANGED <<scope, op, procs, file, worker, phase, written>>

\* update_fn up to its own call of clean_up_subprocess: the two comparisons,
\* the lookup or construction of the RayCluster and the Updating item.
UpdateFn(K, body, og, ng, oldr, newr) ==
    /\ CanDeliver(K)
    /\ LET cfg == CrToConfig(body)
           spec_changed == SpecChanged(og, ng)
           ray_restart_required == RayRestartRequired(oldr, newr)
           known == registry[K] # 0
           s == IF known THEN registry[K] ELSE Len(sups[K]) + 1
       IN IF ~(spec_changed \/ ray_restart_required)
          THEN /\ Deliver(K, "update", body, Quiet(og, ng, oldr, newr),
                       Retried(oldr, newr))
               /\ UNCHANGED <<scope, op, registry, sups, procs, file, queue, worker,
                              phase, h, enqueued, written>>
          ELSE /\ Deliver(K, "update", body, Quiet(og, ng, oldr, newr),
                       Retried(oldr, newr))
               /\ sups' = IF known THEN sups
                          ELSE [sups EXCEPT ![K] = Append(@, RayCluster(K, cfg))]
               /\ registry' = IF known THEN registry
                              ELSE RegistryInsert(registry, K, s)
               /\ Put(Item(K, STATUS_UPDATING))
               /\ h' = [h EXCEPT ![K] =
                          [pc |-> "u_clean", fn |-> "update", sup |-> s,
                           cfg |-> cfg, restart |-> ray_restart_required]]
               /\ UNCHANGED <<scope, op, procs, file, worker, phase, written>>

\* A delete_fn that reports a status before its early return.
DeleteFnReporting(K) ==
    /\ CanDeliver(K)
    /\ cur' = [id |-> K, kind |-> "delete", quiet |-> registry[K] = 0,
               retry |-> FALSE]
    /\ nev' = nev + 1
    /\ IF registry[K] = 0
       THEN /\ seen' = [seen EXCEPT ![K] = Forget(@)]
            /\ h' = h
            /\ Put(Item(K, STATUS_UPDATING))
       ELSE /\ seen' = seen
            /\ h' = [h EXCEPT ![K] =
                       [pc |-> "d_clean", fn |-> "delete", sup |-> registry[K],
                        cfg |-> NoConfig, restart |-> FALSE]]
            /\ UNCHANGED <<queue, enqueued>>
    /\ UNCHANGED <<scope, op, registry, sups, procs, file, worker, phase, written>>

\* delete_fn up to the call of clean_up: the lookup and the early return.
DeleteFn(K) ==
    /\ CanDeliver(K)
    /\ cur' = [id |-> K, kind |-> "delete", quiet |-> registry[K] = 0,
               retry |-> FALSE]
    /\ nev' = nev + 1
    /\ IF registry[K] = 0
       THEN /\ seen' = [seen EXCEPT ![K] = Forget(@)]
            /\ h' = h
       ELSE /\ seen' = seen
            /\ h' = [h EXCEPT ![K] =
                       [pc |-> "d_clean", fn |-> "delete", sup |-> registry[K],
                        cfg |-> NoConfig, restart |-> FALSE]]
    /\ UNCHANGED <<scope, op, registry, sups, procs, file, queue, worker, phase,
                   enqueued, written>>

\* Where a handler continues after clean_up_subprocess returns.
AfterCleanUp(pc) ==
    CASE pc \in {"u_clean", "u_join"} -> "u_setcfg"
      [] pc \in {"s_clean", "s_join"} -> "s_start"
      [] pc \in {"d_clean", "d_join"} -> "d_finish"

JoinOf(pc) ==
    CASE pc = "u_clean" -> "u_join"
      [] pc = "s_clean" -> "s_join"
      [] pc = "d_clean" -> "d_join"

\* The subprocess that clean_up_subprocess stops: self.subprocess when it is
\* set and alive, 0 otherwise.
LiveSubprocess(K, s) ==
    IF sups[K][s].subprocess # 0 /\ IsAlive(K, sups[K][s].subprocess)
    THEN sups[K][s].subprocess ELSE 0

\* A clean_up_subprocess that sets monitor_stop_event before the is_alive
\* test.
CleanUpSubprocessSetFirst(K) ==
    /\ h[K].pc \in {"u_clean", "s_clean", "d_clean"}
    /\ LET s == h[K].sup
       IN /\ sups' = [sups EXCEPT ![K][s].stop = TRUE]
          /\ IF LiveSubprocess(K, s) # 0
             THEN h' = [h EXCEPT ![K].pc = JoinOf(@)]
             ELSE h' = [h EXCEPT ![K].pc = AfterCleanUp(@)]
    /\ UNCHANGED <<scope, op, registry, procs, file, queue, worker, phase, seen,
                   cur, nev, enqueued, written>>

\* clean_up_subprocess, first half: the is_alive test and
\* monitor_stop_event.set().
CleanUpSubprocess(K) ==
    /\ h[K].pc \in {"u_clean", "s_clean", "d_clean"}
    /\ LET s == h[K].sup
       IN IF LiveSubprocess(K, s) # 0
          THEN /\ sups' = [sups EXCEPT ![K][s].stop = TRUE]
               /\ h' = [h EXCEPT ![K].pc = JoinOf(@)]
          ELSE /\ sups' = sups
               /\ h' = [h EXCEPT ![K].pc = AfterCleanUp(@)]
    /\ UNCHANGED <<scope, op, registry, procs, file, queue, worker, phase, seen,
                   cur, nev, enqueued, written>>

\* A clean_up_subprocess whose join returns without waiting for the child.
JoinSubprocessNoWait(K) ==
    /\ h[K].pc \in {"u_join", "s_join", "d_join"}
    /\ LET s == h[K].sup
       IN sups' = [sups EXCEPT ![K][s].stop = FALSE]
    /\ h' = [h EXCEPT ![K].pc = AfterCleanUp(@)]
    /\ UNCHANGED <<scope, op, registry, procs, file, queue, worker, phase, seen,
                   cur, nev, enqueued, written>>

\* clean_up_subprocess, second half: subprocess.join() returns once the child
\* has exited, then monitor_stop_event.clear().
JoinSubprocess(K) ==
    /\ h[K].pc \in {"u_join", "s_join", "d_join"}
    /\ LET s == h[K].sup
       IN /\ ~IsAlive(K, sups[K][s].subprocess)
          /\ sups' = [sups EXCEPT ![K][s].stop = FALSE]
    /\ h' = [h EXCEPT ![K].pc = AfterCleanUp(@)]
    /\ UNCHANGED <<scope, op, registry, procs, file, queue, worker, phase, seen,
                   cur, nev, enqueued, written>>

\* ray_cluster.set_config(cluster_config) in update_fn.
SetConfig(K) ==
    /\ h[K].pc = "u_setcfg"
    /\ sups' = [sups EXCEPT ![K][h[K].sup].config = h[K].cfg]
    /\ h' = [h EXCEPT ![K].pc = "s_clean"]
    /\ UNCHANGED <<scope, op, registry, procs, file, queue, worker, phase, seen,
                   cur, nev, enqueued, written>>

\* The child that mp.Process(...).start() forks: it runs _create_or_update on
\* a copy of the RayCluster and of cluster_status_q; q holds what the child
\* has put on its copy, by names the handler that launched it.
NewProcess(K, s, restart) ==
    [id |-> K, sup |-> s, by |-> h[K].fn, config |-> sups[K][s].config,
     restart |-> restart, pc |-> "head", q |-> <<>>]

\* do_in_subprocess after clean_up_subprocess: the new mp.Process is started
\* and tracked as self.subprocess.
StartSubprocess(K) ==
    /\ h[K].pc = "s_start"
    /\ LET s == h[K].sup
       IN /\ procs' = [procs EXCEPT ![K] = Append(@, NewProcess(K, s, h[K].restart))]
          /\ sups' = [sups EXCEPT ![K][s].subprocess = Len(procs[K]) + 1]
    /\ h' = [h EXCEPT ![K].pc = "running"]
    /\ UNCHANGED <<scope, op, registry, file, queue, worker, phase, seen, cur, nev,
                   enqueued, written>>

\* A last statement that puts STATUS_UPDATING a second time.
PutUpdatingAgain(K) ==
    /\ h[K].pc = "running"
    /\ Put(Item(K, STATUS_UPDATING))
    /\ h' = [h EXCEPT ![K] = IdleHandler]
    /\ UNCHANGED <<scope, op, registry, sups, procs, file, worker, phase, seen,
                   cur, nev, written>>

\* cluster_status_q.put((name, namespace, STATUS_RUNNING)), the last statement
\* of create_fn and of update_fn.
PutRunning(K) ==
    /\ h[K].pc = "running"
    /\ Put(Item(K, STATUS_RUNNING))
    /\ h' = [h EXCEPT ![K] = IdleHandler]
    /\ UNCHANGED <<scope, op, registry, sups, procs, file, worker, phase, seen,
                   cur, nev, written>>

\* os.remove(self.config_path); a missing file is logged, not raised.
DeleteConfig(f, K) == [f EXCEPT ![K] = NoConfig]

\* delete_fn after clean_up_subprocess: clean_up_logging, delete_config and
\* the removal of the registry entry.
DeleteFinish(K) ==
    /\ h[K].pc = "d_finish"
    /\ file' = DeleteConfig(file, K)
    /\ registry' = RegistryDel(registry, K)
    /\ seen' = [seen EXCEPT ![K] = Forget(@)]
    /\ h' = [h EXCEPT ![K] = IdleHandler]
    /\ UNCHANGED <<scope, op, sups, procs, queue, worker, phase, cur, nev,
                   enqueued, written>>

(***************************************************************************)
(* The supervised process: _create_or_update in the forked child.          *)
(***************************************************************************)

\* A write_config whose config_path does not depend on the cluster: one file
\* for all of them.
WriteConfigShared(f, K, cfg) == [k \in DOMAIN f |-> cfg]

\* write_config: yaml.dump(self.config) over the file at config_path.
WriteConfig(f, K, cfg) == [f EXCEPT ![K] = cfg]

\* A start_head without the write_config that follows
\* create_or_update_cluster.
ProcStartHeadNoRewrite(K, p) ==
    /\ procs[K][p].pc = "head"
    /\ LET cfg == CreateOrUpdateCluster(procs[K][p].config)
       IN /\ file' = WriteConfig(file, K, procs[K][p].config)
          /\ procs' = [procs EXCEPT ![K][p].pc = "monitor", ![K][p].config = cfg]
    /\ UNCHANGED <<scope, op, registry, sups, queue, worker, phase, h, seen, cur,
                   nev, enqueued, written>>

\* start_head: write_config, commands.create_or_update_cluster, and
\* write_config of the config it returned.
ProcStartHead(K, p) ==
    /\ procs[K][p].pc = "head"
    /\ LET cfg == CreateOrUpdateCluster(procs[K][p].config)
       IN /\ file' = WriteConfig(WriteConfig(file, K, procs[K][p].config), K, cfg)
          /\ procs' = [procs EXCEPT ![K][p].pc = "monitor", ![K][p].config = cfg]
    /\ UNCHANGED <<scope, op, registry, sups, queue, worker, phase, h, seen, cur,
                   nev, enqueued, written>>

\* The queue the child's except-clause puts on: cluster_status_q is a
\* queue.Queue, so the forked child puts on its own copy.
ChildPut(K, p, item) ==
    [procs EXCEPT ![K][p].q = Append(@, item), ![K][p].pc = "failed"]

\* _create_or_update: start_head raises in create_or_update_cluster (after
\* the first write_config), or start_monitor raises; the except clause puts
\* the AutoscalingException item and re-raises, which ends the child.
ProcFail(K, p) ==
    /\ procs[K][p].pc \in {"head", "monitor"}
    /\ file' = IF procs[K][p].pc = "head"
               THEN WriteConfig(file, K, procs[K][p].config)
               ELSE file
    /\ procs' = ChildPut(K, p, Item(K, STATUS_AUTOSCALING_EXCEPTION))
    /\ UNCHANGED <<scope, op, registry, sups, queue, worker, phase, h, seen, cur,
                   nev, enqueued, written>>

\* A monitor that returns only while monitor_stop_event is clear.
ProcMonitorStopInverted(K, p) ==
    /\ procs[K][p].pc = "monitor"
    /\ ~sups[K][procs[K][p].sup].stop
    /\ procs' = [procs EXCEPT ![K][p].pc = "exited"]
    /\ UNCHANGED <<scope, op, registry, sups, file, queue, worker, phase, h, seen,
                   cur, nev, enqueued, written>>

\* start_monitor: Monitor.run() returns once it sees monitor_stop_event set,
\* and the child exits.
ProcMonitorStop(K, p) ==
    /\ procs[K][p].pc = "monitor"
    /\ sups[K][procs[K][p].sup].stop
    /\ procs' = [procs EXCEPT ![K][p].pc = "exited"]
    /\ UNCHANGED <<scope, op, registry, sups, file, queue, worker, phase, h, seen,
                   cur, nev, enqueued, written>>

(***************************************************************************)
(* The status thread and the kopf startup and cleanup handlers.            *)
(***************************************************************************)

\* The args of threading.Thread(target=status_handling_loop, daemon=True).
ThreadArgs == <<>>

\* status_handling_loop(queue) takes the queue as its one parameter.
LoopParams == <<"queue">>

\* start_background_worker: the thread is created with args and started.
\* Thread.run calls self._target(*self._args), which binds args to the
\* parameters of status_handling_loop: when their numbers differ the call
\* raises TypeError and the thread ends, otherwise the loop starts.
StartBackgroundWorker(args) ==
    /\ op = "init"
    /\ op' = "running"
    /\ worker' = [worker EXCEPT !.pc =
                    IF Len(args) = Len(LoopParams) THEN "get" ELSE "dead"]
    /\ UNCHANGED <<scope, registry, sups, procs, file, queue, phase, h, seen, cur,
                   nev, enqueued, written>>

\* get() on a queue.LifoQueue: the newest item is taken.
LifoGet(q) == [item |-> q[Len(q)], rest |-> SubSeq(q, 1, Len(q) - 1)]

\* queue.get() on a queue.Queue: the oldest item is taken (the call blocks
\* while the queue is empty).
QueueGet(q) == [item |-> Head(q), rest |-> Tail(q)]

\* operator_utils.set_status(cluster_name, cluster_namespace, phase): the
\* resource's status.phase becomes the item's phase, or the call raises (ok is
\* FALSE) and nothing is written.
SetStatus(ph, item, ok) == IF ok THEN [ph EXCEPT ![item.id] = item.phase] ELSE ph

\* A loop without the try/except around set_status: the exception ends it.
StatusHandlingLoopRaising ==
    /\ worker.pc = "get"
    /\ queue # <<>>
    /\ LET item == QueueGet(queue).item
       IN /\ queue' = QueueGet(queue).rest
          /\ IF item = Sentinel
             THEN /\ worker' = [worker EXCEPT !.pc = "dead"]
                  /\ UNCHANGED <<written, phase>>
             ELSE /\ written' = Append(written, item)
                  /\ \E ok \in BOOLEAN :
                        /\ phase' = SetStatus(phase, item, ok)
                        /\ worker' = IF ok THEN worker
                                     ELSE [worker EXCEPT !.pc = "dead"]
    /\ UNCHANGED <<scope, op, registry, sups, procs, file, h, seen, cur, nev,
                   enqueued>>

\* One turn of status_handling_loop: item = queue.get(); None ends the loop;
\* otherwise set_status is called, and an exception it raises is logged.
StatusHandlingLoop ==
    /\ worker.pc = "get"
    /\ queue # <<>>
    /\ LET item == QueueGet(queue).item
       IN /\ queue' = QueueGet(queue).rest
          /\ IF item = Sentinel
             THEN /\ worker' = [worker EXCEPT !.pc = "dead"]
                  /\ UNCHANGED <<written, phase>>
             ELSE /\ worker' = worker
                  /\ written' = Append(written, item)
                  /\ \E ok \in BOOLEAN : phase' = SetStatus(phase, item, ok)
    /\ UNCHANGED <<scope, op, registry, sups, procs, file, h, seen, cur, nev,
                   enqueued>>

\* stop_background_worker: cluster_status_q.put(None).  kopf runs the cleanup
\* handlers at shutdown, once the resource handlers have returned.
StopBackgroundWorker ==
    /\ op = "running"
    /\ \A K \in Ids : h[K].pc = "idle"
    /\ nev < EventBound(scope)
    /\ nev' = nev + 1
    /\ cur' = [id |-> 0, kind |-> "cleanup", quiet |-> FALSE, retry |-> FALSE]
    /\ op' = "stopping"
    /\ Put(Sentinel)
    /\ UNCHANGED <<scope, registry, sups, procs, file, worker, phase, h, seen,
                   written>>

\* stop_background_worker: memo.status_handler.join() returns once the thread
\* has ended.
JoinWorker ==
    /\ op = "stopping"
    /\ worker.pc = "dead"
    /\ op' = "stopped"
    /\ UNCHANGED <<scope, registry, sups, procs, file, queue, worker, phase, h, seen,
                   cur, nev, enqueued, written>>

(***************************************************************************)
(* Specifications.                                                         *)
(***************************************************************************)

Handlers ==
    \/ \E K \in Ids, body \in Bodies : CreateFn(K, body)
    \/ \E K \in Ids, body \in Bodies, og \in Gens, ng \in Gens,
          oldr \in RetryFields, newr \in RetryFields :
         UpdateFn(K, body, og, ng, oldr, newr)
    \/ \E K \in Ids : DeleteFn(K)
    \/ \E K \in Ids : CleanUpSubprocess(K)
    \/ \E K \in Ids : JoinSubprocess(K)
    \/ \E K \in Ids : SetConfig(K)
    \/ \E K \in Ids : StartSubprocess(K)
    \/ \E K \in Ids : PutRunning(K)
    \/ \E K \in Ids : DeleteFinish(K)

Children ==
    \/ \E K \in Ids : \E p \in DOMAIN procs[K] : ProcStartHead(K, p)
    \/ \E K \in Ids : \E p \in DOMAIN procs[K] : ProcFail(K, p)
    \/ \E K \in Ids : \E p \in DOMAIN procs[K] : ProcMonitorStop(K, p)

\* The operator as written: the status thread is started without arguments.
Next ==
    \/ Handlers
    \/ Children
    \/ StartBackgroundWorker(ThreadArgs)
    \/ StopBackgroundWorker
    \/ JoinWorker

Spec == Init /\ [][Next]_vars

\* status_handling_loop applied to cluster_status_q, with the handlers of two
\* identifiers as its producers: the loop taken as a unit.
InitLoop == Init /\ scope = Ids

NextLoop ==
    \/ Handlers
    \/ Children
    \/ StartBackgroundWorker(<<"cluster_status_q">>)
    \/ StatusHandlingLoop
    \/ StopBackgroundWorker
    \/ JoinWorker

SpecLoop == InitLoop /\ [][NextLoop]_vars

\* A handler that has been called runs to its end: kopf runs each handler in
\* a thread of its own, which blocks only in subprocess.join().
HandlerStep(K) ==
    \/ CleanUpSubprocess(K)
    \/ JoinSubprocess(K)
    \/ SetConfig(K)
    \/ StartSubprocess(K)
    \/ PutRunning(K)
    \/ DeleteFinish(K)

\* Provisioning terminates: a child in start_head either completes it or
\* raises.
Provisioning(K, p) ==
    /\ p \in DOMAIN procs[K]
    /\ procs[K][p].pc = "head"
    /\ (ProcStartHead(K, p) \/ ProcFail(K, p))

\* The monitor loop exits once it observes monitor_stop_event set.
MonitorHonoursStop(K, p) ==
    /\ p \in DOMAIN procs[K]
    /\ ProcMonitorStop(K, p)

Fairness ==
    \A K \in Ids :
        /\ WF_vars(HandlerStep(K))
        /\ \A p \in 1..MaxEvents :
              /\ WF_vars(Provisioning(K, p))
              /\ WF_vars(MonitorHonoursStop(K, p))

\* The operator with handlers that keep running, provisioning that
\* terminates and monitors that honour the cancellation signal.
SpecFair == Init /\ [][Next]_vars /\ Fairness

(***************************************************************************)
(* Properties.                                                             *)
(***************************************************************************)

LiveProcs(K) == {p \in DOMAIN procs[K] : IsAlive(K, p)}

\* The phases of the items for K in a sequence of queue items.
RECURSIVE PhasesFor(_, _)
PhasesFor(K, q) ==
    IF q = <<>> THEN <<>>
    ELSE IF Head(q).id = K THEN <<Head(q).phase>> \o PhasesFor(K, Tail(q))
    ELSE PhasesFor(K, Tail(q))

\* The items put before the sentinel.
RECURSIVE BeforeSentinel(_)
BeforeSentinel(q) ==
    IF q = <<>> \/ Head(q) = Sentinel THEN <<>>
    ELSE <<Head(q)>> \o BeforeSentinel(Tail(q))

\* C1: for every identifier, at most one supervised process launched for it
\* is alive, in every reachable state.
C1_AtMostOneLiveProcess ==
    \A K \in Ids : Cardinality(LiveProcs(K)) <= 1

\* C2: when the process launched by a create event has failed and the create
\* handler has returned, the items enqueued for the identifier are exactly
\* Updating then AutoscalingException, with no Running item.
C2_FailedCreateEnqueuesException ==
    \A K \in Ids :
        ( /\ h[K].pc = "idle"
          /\ Len(procs[K]) = 1
          /\ procs[K][1].by = "create"
          /\ procs[K][1].pc = "failed" )
        => PhasesFor(K, enqueued) = <<STATUS_UPDATING, STATUS_AUTOSCALING_EXCEPTION>>

\* C3: the AutoscalingException item that a failing supervised process puts
\* is an item of the controller's status queue (where the status worker
\* takes its items from).
C3_ExceptionItemReachesController ==
    \A K \in Ids : \A p \in DOMAIN procs[K] :
        procs[K][p].pc = "failed"
        => \E i \in DOMAIN enqueued :
              enqueued[i] = Item(K, STATUS_AUTOSCALING_EXCEPTION)

C5_ShutdownFlushesQueue ==
    op = "stopped" => written = BeforeSentinel(enqueued)

\* C6 as stated: between handler invocations, the registry has an entry for K
\* if and only if a create event for K has been observed and no delete event
\* for K has been fully processed since.
C6_EntryIffCreateObserved ==
    \A K \in Ids :
        h[K].pc = "idle" => ((registry[K] # 0) <=> seen[K].created)

\* C6 amended: between handler invocations, the registry has an entry for K
\* if and only if, since the last fully processed delete event for K, a
\* create/resume event with a permitted config or an update event with an
\* increased generation or retry count has been handled for K.
C6_EntryIffEntered ==
    \A K \in Ids :
        h[K].pc = "idle" => ((registry[K] # 0) <=> seen[K].entered)

\* C6 witness: between handler invocations an identifier has an entry that
\* an update event made, no create event having been observed for it.
C6_Witness ==
    \E K \in Ids :
        /\ h[K].pc = "idle"
        /\ registry[K] # 0
        /\ ~seen[K].created

\* C7 as stated: at the instant a supervised process has been launched (the
\* handler has started it and it has not yet run), the file at config_path
\* exists and equals the supervisor's config.
C7_FileWrittenBeforeLaunch ==
    \A K \in Ids :
        ( /\ h[K].pc = "running"
          /\ procs[K][Len(procs[K])].pc = "head" )
        => file[K] = sups[K][h[K].sup].config

\* C7 amended: create_or_update does not write the file: the step that
\* launches a supervised process leaves the file as it was and hands the
\* process the supervisor's current config (after an update, the config of
\* the event).  The file is written by the launched process itself, in
\* start_head: the step in which a process completes start_head leaves the
\* file equal to the config create_or_update_cluster returned for the config
\* the process was launched with, and a process that fails in start_head
\* leaves the config it was launched with.
C7_ChildWritesConfig ==
    [][\A K \in Ids :
         /\ Len(procs'[K]) > Len(procs[K])
            => LET new == procs'[K][Len(procs'[K])]
               IN /\ file'[K] = file[K]
                  /\ new.config = sups[K][h[K].sup].config
                  /\ h[K].fn = "update" => new.config = h[K].cfg
         /\ \A p \in DOMAIN procs[K] :
              /\ (procs[K][p].pc = "head" /\ procs'[K][p].pc = "monitor")
                 => /\ file'[K] = procs'[K][p].config
                    /\ file'[K] = CreateOrUpdateCluster(procs[K][p].config)
              /\ (procs[K][p].pc = "head" /\ procs'[K][p].pc = "failed")
                 => file'[K] = procs[K][p].config]_vars

\* C7 witness: an update handler has just launched a process for a new
\* config while the file still holds the previous one.
C7_Witness ==
    \E K \in Ids :
        /\ h[K].pc = "running"
        /\ h[K].fn = "update"
        /\ procs[K][Len(procs[K])].pc = "head"
        /\ file[K] # NoConfig
        /\ file[K].body # sups[K][h[K].sup].config.body

\* C8: no cluster whose configuration has the forbidden credential field
\* enters Active: no registry entry holds such a config and no supervised
\* process is launched with one.
C8_ForbiddenConfigNeverActive ==
    \A K \in Ids :
        /\ registry[K] # 0 => ~HasRedisPassword(sups[K][registry[K]].config)
        /\ \A p \in DOMAIN procs[K] : ~HasRedisPassword(procs[K][p].config)

\* C9: an update event whose new generation is not greater than the old one
\* and whose new retry count is not greater than the old one changes nothing:
\* not the registry, the supervisors (config, process handle, cancellation
\* signal), the processes, the files, the status queue or the handler.
C9_QuietUpdateIsInert ==
    [][(nev' = nev + 1 /\ cur'.kind = "update" /\ cur'.quiet)
       => UNCHANGED <<registry, sups, procs, file, queue, enqueued, written,
                      phase, worker, h, op>>]_vars

\* C9 witness: a quiet update event has been delivered for an identifier
\* that has a registry entry and a live supervised process.
C9_Witness ==
    /\ cur.kind = "update"
    /\ cur.quiet
    /\ registry[cur.id] # 0
    /\ LiveProcs(cur.id) # {}

Count(sq, x) == Cardinality({i \in DOMAIN sq : sq[i] = x})

\* C10: every create/resume event with a permitted config and every update
\* event with an increased counter enqueues for its identifier one Updating
\* item, launches one supervised process and then enqueues one Running item;
\* the handlers enqueue nothing else.
C10_UpdatingLaunchRunning ==
    \A K \in Ids :
        LET ph == PhasesFor(K, enqueued)
            busy == IF h[K].fn \in {"create", "update"} THEN 1 ELSE 0
            launched == IF h[K].pc = "running" THEN 1 ELSE 0
        IN /\ \A i \in DOMAIN ph :
                ph[i] = IF i % 2 = 1 THEN STATUS_UPDATING ELSE STATUS_RUNNING
           /\ Count(ph, STATUS_UPDATING) = seen[K].acts
           /\ Count(ph, STATUS_RUNNING) = seen[K].acts - busy
           /\ Len(procs[K]) = seen[K].acts - busy + launched

\* C10 witness: a create event and a later update event for one identifier
\* have both been handled to the end.
C10_Witness ==
    \E K \in Ids :
        /\ h[K].pc = "idle"
        /\ PhasesFor(K, enqueued) =
             <<STATUS_UPDATING, STATUS_RUNNING, STATUS_UPDATING, STATUS_RUNNING>>
        /\ Len(procs[K]) = 2
        /\ procs[K][1].by = "create"
        /\ procs[K][2].by = "update"

\* C11: the restart argument that create_or_update is called with is false
\* for every create/resume event; for every acting update event it is true
\* exactly when the new retry count is greater than the old one (whether or
\* not the generation increased as well).  The supervised process is launched
\* with that argument.
C11_RestartIffRetried ==
    [][/\ (nev' = nev + 1 /\ cur'.kind \in {"create", "update"}
            /\ h'[cur'.id].pc # "idle")
           => h'[cur'.id].restart = (cur'.kind = "update" /\ cur'.retry)
       /\ \A K \in Ids :
             Len(procs'[K]) > Len(procs[K])
             => procs'[K][Len(procs'[K])].restart = h[K].restart]_vars

\* C11 witness: an update event with an increased retry count has launched
\* a process with restart true on a supervisor whose earlier process a
\* create event launched with restart false.
C11_Witness ==
    \E K \in Ids :
        /\ cur = [id |-> K, kind |-> "update", quiet |-> FALSE, retry |-> TRUE]
        /\ Len(procs[K]) = 2
        /\ procs[K][1].by = "create" /\ ~procs[K][1].restart
        /\ procs[K][2].by = "update" /\ procs[K][2].restart

\* C12: at the step that completes a delete event for an identifier with a
\* registry entry, the registry has no entry for the identifier and no
\* supervised process launched for it is alive.
C12_DeleteLeavesNothingAlive ==
    [][\A K \in Ids :
         (h[K].pc = "d_finish" /\ h'[K].pc = "idle")
         => /\ registry'[K] = 0
            /\ \A p \in DOMAIN procs'[K] :
                  procs'[K][p].pc \in {"exited", "failed"}]_vars

\* C13: while no handler runs for an identifier that had a supervisor and
\* whose last delete event has been fully processed with no create/resume or
\* acting update event handled since, the identifier's config file does not
\* exist.
C13_ConfigAbsentAfterDelete ==
    \A K \in Ids :
        (h[K].pc = "idle" /\ sups[K] # <<>> /\ ~seen[K].entered)
        => file[K] = NoConfig

\* C14: a delete event for an identifier without a registry entry changes
\* nothing: the handler returns at once, no status item is enqueued, and the
\* registry, the supervisors, the processes and the config files stay as
\* they were.
C14_DeleteUnknownIsNoOp ==
    [][(nev' = nev + 1 /\ cur'.kind = "delete" /\ registry[cur'.id] = 0)
       => UNCHANGED <<registry, sups, procs, file, queue, enqueued, written,
                      phase, worker, h, op>>]_vars

\* C14 witness: a second delete event has been delivered for an identifier
\* whose entry an earlier delete event removed.
C14_Witness ==
    /\ cur.kind = "delete"
    /\ cur.quiet
    /\ registry[cur.id] = 0
    /\ sups[cur.id] # <<>>
    /\ h[cur.id].pc = "idle"

Has(sq, x) == \E i \in DOMAIN sq : sq[i] = x

C16_FailureIsLocalAndRecoverable ==
    [][\A K \in Ids :
         /\ (\E p \in DOMAIN procs[K] :
                procs[K][p].pc # "failed" /\ procs'[K][p].pc = "failed")
            => UNCHANGED <<registry, sups, h, queue>>
         /\ (registry[K] # 0 /\ registry'[K] = 0) => h[K].fn = "delete"
         /\ (nev' = nev + 1 /\ cur'.id = K /\ cur'.kind = "update"
             /\ cur'.retry /\ registry[K] # 0)
            => (h'[K].sup = registry[K] /\ registry'[K] = registry[K])
         /\ (/\ Len(procs'[K]) > Len(procs[K])
             /\ h[K].fn = "update" /\ cur.retry /\ cur.id = K
             /\ sups[K][h[K].sup].subprocess # 0
             /\ procs[K][sups[K][h[K].sup].subprocess].pc = "failed")
            => /\ procs'[K][Len(procs'[K])].restart
               /\ procs'[K][Len(procs'[K])].sup = h[K].sup
               /\ {p \in DOMAIN procs'[K] :
                     procs'[K][p].pc \notin {"exited", "failed"}}
                  = {Len(procs'[K])}]_vars

\* C17: a supervised process is started only by the last step of
\* do_in_subprocess, one at a time, and only when every process started
\* earlier on the same supervisor has exited, after which the handler has
\* only its Running item left to put; and in an update handler the
\* clean_up_subprocess inside do_in_subprocess, coming after the handler's
\* own call, finds no live process: it raises no signal, waits for nothing
\* and leaves the supervisor as it is.
C17_LaunchAfterPreviousExited ==
    [][\A K \in Ids :
         /\ Len(procs'[K]) # Len(procs[K])
            => /\ h[K].pc = "s_start"
               /\ h'[K].pc = "running"
               /\ Len(procs'[K]) = Len(procs[K]) + 1
               /\ \A p \in DOMAIN procs[K] :
                     procs[K][p].sup = h[K].sup
                     => procs[K][p].pc \in {"exited", "failed"}
         /\ (h[K].fn = "update" /\ h[K].pc = "s_clean")
            => /\ h'[K].pc \in {"s_clean", "s_start"}
               /\ sups'[K] = sups[K]]_vars

\* C17 witness: an update handler has launched the replacement after the
\* process it stopped had exited on the cancellation signal.
C17_Witness ==
    \E K \in Ids :
        /\ h[K].fn = "update"
        /\ h[K].pc = "running"
        /\ Len(procs[K]) = 2
        /\ procs[K][1].pc = "exited"
        /\ procs[K][1].sup = procs[K][2].sup
        /\ procs[K][2].pc = "head"

InCleanUp(K) ==
    h[K].pc \in {"u_clean", "u_join", "s_clean", "s_join", "d_clean", "d_join"}

\* C18: when provisioning terminates and the monitor exits once it sees the
\* cancellation signal, every call of clean_up_subprocess returns, every
\* acting update handler and every delete handler runs to its end, a delete
\* handler ending with the registry entry removed; and the call returns
\* from its join only when the process it stopped is no longer alive.
C18_StopAndWaitTerminates ==
    /\ \A K \in Ids : InCleanUp(K) ~> ~InCleanUp(K)
    /\ \A K \in Ids : (h[K].fn = "update") ~> (h[K].pc = "idle")
    /\ \A K \in Ids : (h[K].fn = "delete") ~> (h[K].pc = "idle" /\ registry[K] = 0)
    /\ [][\A K \in Ids :
            (h[K].pc \in {"u_join", "s_join", "d_join"} /\ h'[K].pc # h[K].pc)
            => procs'[K][sups[K][h[K].sup].subprocess].pc
                 \in {"exited", "failed"}]_vars

\* C18 witness: a delete handler has returned after stopping a monitor that
\* was running: the process exited on the signal and the entry is removed.
C18_Witness ==
    \E K \in Ids :
        /\ cur = [id |-> K, kind |-> "delete", quiet |-> FALSE, retry |-> FALSE]
        /\ h[K].pc = "idle"
        /\ registry[K] = 0
        /\ Len(procs[K]) = 1
        /\ procs[K][1].pc = "exited"

\* C19: the monitor_stop_event of a supervisor is set only while a handler
\* is inside clean_up_subprocess for that supervisor, between set() and the
\* return of join(); so it is clear when do_in_subprocess starts a process
\* and while the handler that started it finishes.
C19_SignalOnlyWhileWaiting ==
    \A K \in Ids :
        /\ \A s \in DOMAIN sups[K] :
              sups[K][s].stop
              => (h[K].pc \in {"u_join", "s_join", "d_join"} /\ h[K].sup = s)
        /\ h[K].pc \in {"s_start", "running"} => ~sups[K][h[K].sup].stop

\* C19 witness: an update handler has launched a process on a supervisor
\* whose previous process had failed by itself, with no stop requested.
C19_Witness ==
    \E K \in Ids :
        /\ h[K].fn = "update"
        /\ h[K].pc = "running"
        /\ Len(procs[K]) = 2
        /\ procs[K][1].pc = "failed"
        /\ procs[K][1].sup = procs[K][2].sup
        /\ procs[K][2].pc = "head"
        /\ ~sups[K][h[K].sup].stop

\* What the operator holds for one identifier: its registry entry, its
\* RayCluster objects (config, process handle, cancellation signal), its
\* processes and its config file.
PerId(K) == <<registry[K], sups[K], procs[K], file[K]>>

====
